---- MODULE Spec2Model ----
(***************************************************************************)
(* A model of the two rago adapters:                                       *)
(*   OpenAIAug  (src/rago/augmented/openai.py): _setup, get_embedding,     *)
(*              search                                                     *)
(*   LlamaGen   (src/rago/generation/llama.py): _validate, _setup,         *)
(*              generate                                                   *)
(* Strings are sequences of one-character strings.  A Python dict is a     *)
(* function whose domain is the set of its keys (<< >> is the empty dict). *)
(* An optional value is a sequence of length 0 (absent) or 1 (present).    *)
(***************************************************************************)
EXTENDS Integers, Sequences, FiniteSets, TLC

\* ------------------------------------------------------------------ bounds
MaxPieces == 4      \* pieces concatenated into a generated text
MaxDocs == 2        \* longest document list handed to search
MaxTopK == 2        \* largest top_k given as argument or configured
MaxStored == 2      \* most vectors the index holds before search is cut off

\* ------------------------------------------------------- program constants
default_top_k == 2
default_temperature == "0.5"
default_output_max_length == 500
default_model_name == "text-embedding-3-small"
llama_default_model_name == <<"meta-llama", "Llama-3.2-1B">>

VARIABLES
    openai_api_key,      \* the process-wide openai.api_key
    aug,                 \* the OpenAIAug instance: its attributes
    db_index,            \* the vectors the attached index stores
    aug_logs,            \* OpenAIAug.logs
    aug_call,            \* what the last OpenAIAug operation did
    gen,                 \* the LlamaGen instance: its attributes
    lang_code,           \* tokenizer.lang_code, << >> while never set
    gen_logs,            \* LlamaGen.logs
    gen_call,            \* what the last LlamaGen operation did
    response,            \* what the generation pipeline returned
    answer               \* what generate returned

augVars == <<openai_api_key, aug, db_index, aug_logs, aug_call>>
genVars == <<gen, lang_code, gen_logs, gen_call, response, answer>>
vars == <<openai_api_key, aug, db_index, aug_logs, aug_call,
          gen, lang_code, gen_logs, gen_call, response, answer>>

\* ----------------------------------------------------------------- Python
\* a or b, of two ints
OrInt(a, b) == IF a # 0 THEN a ELSE b

\* a or b, of two strs
OrStr(a, b) == IF a # "" THEN a ELSE b

\* d.get(k, default)
DictGet(d, k, default) == IF k \in DOMAIN d THEN d[k] ELSE default

Whitespace == {" ", "\n", "\t"}

\* the first position at or after i where sep occurs in s, 0 when none
RECURSIVE Find(_, _, _)
Find(s, sep, i) ==
    IF i + Len(sep) - 1 > Len(s) THEN 0
    ELSE IF SubSeq(s, i, i + Len(sep) - 1) = sep THEN i
    ELSE Find(s, sep, i + 1)

\* s.split(sep): the segments between the occurrences found left to right
RECURSIVE Split(_, _)
Split(s, sep) ==
    LET i == Find(s, sep, 1) IN
    IF i = 0 THEN <<s>>
    ELSE <<SubSeq(s, 1, i - 1)>> \o Split(SubSeq(s, i + Len(sep), Len(s)), sep)

RECURSIVE LStrip(_)
LStrip(s) ==
    IF s # <<>> /\ Head(s) \in Whitespace THEN LStrip(Tail(s)) ELSE s

RECURSIVE RStrip(_)
RStrip(s) ==
    IF s # <<>> /\ s[Len(s)] \in Whitespace
    THEN RStrip(SubSeq(s, 1, Len(s) - 1)) ELSE s

\* s.strip()
Strip(s) == RStrip(LStrip(s))

\* ' '.join(parts)
RECURSIVE JoinSpace(_)
JoinSpace(parts) ==
    IF parts = <<>> THEN <<>>
    ELSE IF Len(parts) = 1 THEN parts[1]
    ELSE parts[1] \o <<" ">> \o JoinSpace(Tail(parts))

\* xs[-1]
Last(xs) == xs[Len(xs)]

\* ------------------------------------------------------------ OpenAIAug
\* the state before AugmentedBase.__init__ has run
NoAug ==
    [phase |-> "Unconfigured", api_key |-> "", model_name |-> "", top_k |-> 0,
     model |-> <<>>, db |-> "missing"]

NoSearch ==
    [op |-> "none", err |-> "", trace |-> <<>>, api_key |-> "", query |-> "",
     documents |-> <<>>, top_k |-> 0, db_top_k |-> 0, conforming |-> TRUE,
     indices |-> <<>>, result |-> <<>>]

\* what the callers give the augmenter
AugApiKeys == {"", "sk_key"}
AugModelNames == {""}
Texts == {"a", "b"}
TopKs == 0..MaxTopK
DocLists == UNION {[1..n -> Texts] : n \in 1..MaxDocs}

\* OpenAIAug._setup: the provider steps it takes, the process-wide key, the
\* resolved model name, the client, and the error it ends with
OpenAIAug_setup(api_key, model_name, global_key) ==
    IF api_key = ""
    THEN [err |-> "ApiKeyRequired", trace |-> <<>>, openai_api_key |-> global_key,
          model_name |-> model_name, model |-> <<>>]
    ELSE [err |-> "", trace |-> <<"openai.api_key", "openai.OpenAI">>,
          openai_api_key |-> api_key,
          model_name |-> OrStr(model_name, default_model_name),
          model |-> <<[api_key |-> api_key]>>]

\* OpenAIAug(...): AugmentedBase.__init__ stores the configuration, then runs
\* _setup; an exception there leaves no instance behind
OpenAIAug_init(api_key, model_name, top_k) ==
    LET s == OpenAIAug_setup(api_key, model_name, openai_api_key)
    IN  /\ aug.phase = "Unconfigured"
        /\ aug_call' = [NoSearch EXCEPT !.op = "init", !.err = s.err,
                                        !.trace = s.trace, !.api_key = api_key]
        /\ openai_api_key' = s.openai_api_key
        /\ aug' = IF s.err # "" THEN aug
                  ELSE [phase |-> "Configured", api_key |-> api_key,
                        model_name |-> s.model_name, top_k |-> top_k,
                        model |-> s.model, db |-> "missing"]
        /\ UNCHANGED <<db_index, aug_logs>>
        /\ UNCHANGED genVars

\* aug.db = v: the caller attaches its index ("index"), empty at first, or
\* puts a value that is false in its place ("none"); the index keeps what it
\* stores while it is not attached
set_db(v) ==
    /\ aug.phase = "Configured"
    /\ aug.db # v
    /\ aug' = [aug EXCEPT !.db = v]
    /\ aug_call' = [NoSearch EXCEPT !.op = "set_db"]
    /\ UNCHANGED <<openai_api_key, db_index, aug_logs>>
    /\ UNCHANGED genVars

\* the embedding provider, a deterministic stub: one vector per text
Embedding(text) == IF text = "a" THEN <<1>> ELSE <<4>>

\* model.embeddings.create(input=content, model=...)
embeddings_create(content) ==
    [data |-> [i \in 1..Len(content) |-> [embedding |-> Embedding(content[i])]]]

\* OpenAIAug.get_embedding: np.array(response.data[0].embedding), reshaped to
\* one row
get_embedding(content) ==
    LET resp == embeddings_create(content)
        result == resp.data[1].embedding
    IN  <<result>>

\* ResolveTopK with the instance's top_k asked first
ResolveTopKInstanceFirst(top_k, self_top_k) ==
    OrInt(self_top_k, OrInt(top_k, OrInt(default_top_k, 1)))

\* top_k or self.top_k or self.default_top_k or 1
ResolveTopK(top_k, self_top_k) ==
    OrInt(top_k, OrInt(self_top_k, OrInt(default_top_k, 1)))

\* DbUninitialized without the test of self.db
DbUninitializedNoTruthTest(a) == a.db = "missing"

\* not hasattr(self, 'db') or not self.db
DbUninitialized(a) == a.db = "missing" \/ a.db = "none"

\* documents[i] is defined
PyInRange(xs, i) == -Len(xs) <= i /\ i < Len(xs)

\* documents[i]
PyItem(xs, i) == IF i >= 0 THEN xs[i + 1] ELSE xs[Len(xs) + i + 1]

\* the squared distance of two vectors
RECURSIVE Distance(_, _)
Distance(v, w) ==
    IF v = <<>> THEN 0
    ELSE (v[1] - w[1]) * (v[1] - w[1]) + Distance(Tail(v), Tail(w))

\* db.embed(vectors): the index inserts the rows it is given
DbEmbed(stored, vectors) == stored \o vectors

\* the positions of stored, nearest to q first, a tie going to the lower one
RECURSIVE Nearest(_, _, _, _)
Nearest(stored, q, k, taken) ==
    LET free == (1..Len(stored)) \ taken IN
    IF k = 0 \/ free = {} THEN <<>>
    ELSE LET best == CHOOSE p \in free : \A r \in free :
                         \/ Distance(stored[p], q) < Distance(stored[r], q)
                         \/ Distance(stored[p], q) = Distance(stored[r], q) /\ p <= r
         IN  <<best>> \o Nearest(stored, q, k - 1, taken \cup {best})


\* db.search(query_encoded, top_k): scores and 0-based positions of the k
\* nearest stored vectors, fewer when the index stores fewer than k
DbSearch(stored, query_encoded, k) ==
    LET ps == Nearest(stored, query_encoded[1], k, {})
    IN  [scores |-> [i \in 1..Len(ps) |-> Distance(stored[ps[i]], query_encoded[1])],
         indices |-> [i \in 1..Len(ps) |-> ps[i] - 1]]

\* what the index answers when it breaks its contract: positions below,
\* inside and above the range of the documents
FaultyAnswers == {<<-(MaxDocs + 1)>>, <<-1>>, <<MaxDocs>>, <<0, -1>>}

\* what the collaborators of one search call do: the embedding call that
\* raises (provider_failure), and the positions the index answers
\* (index_answer, << >> for an index that keeps its contract)
Worlds ==
    {[provider_failure |-> f, index_answer |-> <<>>] : f \in {"documents", "query"}}
    \cup {[provider_failure |-> "none", index_answer |-> a] :
             a \in {<<>>} \cup FaultyAnswers}

\* lines 63-68: the three entries search writes into self.logs
SearchLogs(logs, indices, scores, query_encoded, top_k) ==
    [k \in DOMAIN logs \cup {"indices", "scores", "search_params"} |->
        IF k = "indices" THEN indices
        ELSE IF k = "scores" THEN scores
        ELSE IF k = "search_params"
        THEN [query_encoded |-> query_encoded, top_k |-> top_k]
        ELSE logs[k]]

\* OpenAIAug.search, run on adapter a with the index storing index and the log
\* logs: where it ends (err), the collaborator calls it made (trace), and
\* what it leaves behind.  provider_failure names the embedding call that
\* raises; index_answer is << >> for an index that keeps its contract, else
\* the positions it returns
SearchRun(a, index, logs, query, documents, top_k, provider_failure, index_answer) ==
    LET stop(err, trace) ==
            [err |-> err, trace |-> trace, index |-> index, logs |-> logs,
             db_top_k |-> 0, indices |-> <<>>, result |-> <<>>]
    IN
    IF DbUninitialized(a) THEN stop("DbNotInitialized", <<>>)
    ELSE IF provider_failure = "documents"
    THEN stop("ProviderError", <<"embeddings.create">>)
    ELSE IF provider_failure = "query"
    THEN stop("ProviderError", <<"embeddings.create", "embeddings.create">>)
    ELSE
    LET document_encoded == get_embedding(documents)
        query_encoded == get_embedding(<<query>>)
        k == ResolveTopK(top_k, a.top_k)
    IN
    IF a.db # "index"
    THEN stop("AttributeError", <<"embeddings.create", "embeddings.create">>)
    ELSE
    LET stored == DbEmbed(index, document_encoded)
        found == IF index_answer = <<>> THEN DbSearch(stored, query_encoded, k)
                 ELSE [scores |-> [i \in 1..Len(index_answer) |-> 0],
                       indices |-> index_answer]
        trace == <<"embeddings.create", "embeddings.create", "db.embed", "db.search">>
    IN
    IF \E i \in 1..Len(found.indices) : ~PyInRange(documents, found.indices[i])
    THEN [err |-> "IndexError", trace |-> trace, index |-> stored, logs |-> logs,
          db_top_k |-> k, indices |-> found.indices, result |-> <<>>]
    ELSE [err |-> "", trace |-> trace, index |-> stored,
          logs |-> SearchLogs(logs, found.indices, found.scores, query_encoded, k),
          db_top_k |-> k, indices |-> found.indices,
          result |-> [i \in 1..Len(found.indices) |->
                         PyItem(documents, found.indices[i])]]

search(query, documents, top_k, provider_failure, index_answer) ==
    /\ aug.phase = "Configured"
    /\ Len(db_index) < MaxStored
    /\ \E r \in {SearchRun(aug, db_index, aug_logs, query, documents, top_k,
                            provider_failure, index_answer)} :
        /\ aug_call' = [op |-> "search", err |-> r.err, trace |-> r.trace,
                        api_key |-> "", query |-> query, documents |-> documents,
                        top_k |-> top_k, db_top_k |-> r.db_top_k,
                        conforming |-> (index_answer = <<>>),
                        indices |-> r.indices, result |-> r.result]
        /\ db_index' = r.index
        /\ aug_logs' = r.logs
    /\ UNCHANGED <<openai_api_key, aug>>
    /\ UNCHANGED genVars

\* ------------------------------------------------------------- LlamaGen
Marker == <<"A", "n", "s", "w", "e", "r", ":">>

NoCall == [op |-> "none", err |-> "", trace |-> <<>>, api_key |-> "", detect |-> ""]

\* the state before GenerationBase.__init__ has run
NoGen ==
    [phase |-> "Unconfigured", api_key |-> "", model_name |-> <<>>,
     device_name |-> "", torch_dtype |-> "", pipeline_device |-> 0]

\* the configuration the callers of this model give the generator
ApiKeys == {"", "hf_key"}
ModelNames == {<<>>, llama_default_model_name, <<"openai", "gpt2">>}
DeviceNames == {"cuda", "cpu"}
LoadFailures == {"none", "tokenizer", "model"}

\* self.model_name.startswith('meta-llama/')
LlamaGen_validate(model_name) ==
    IF model_name # <<>> /\ model_name[1] = "meta-llama" THEN "" ELSE "NotMetaModel"

\* what _setup does with the given key: the loader calls it makes, in order,
\* and the error it ends with ("" when it ends normally)
LlamaGen_setup(api_key, load_failure) ==
    IF load_failure = "tokenizer"
    THEN [err |-> "LoadError", trace |-> <<"AutoTokenizer.from_pretrained">>]
    ELSE IF load_failure = "model"
    THEN [err |-> "LoadError",
          trace |-> <<"AutoTokenizer.from_pretrained",
                      "AutoModelForCausalLM.from_pretrained">>]
    ELSE [err |-> "",
          trace |-> <<"AutoTokenizer.from_pretrained",
                      "AutoModelForCausalLM.from_pretrained", "pipeline">>]

\* LlamaGen(...): GenerationBase.__init__ stores the configuration, then runs
\* _validate and _setup; an exception in either leaves no instance behind
LlamaGen_init(api_key, model_name, device_name, load_failure) ==
    LET name == IF model_name = <<>> THEN llama_default_model_name ELSE model_name
        verr == LlamaGen_validate(name)
        s == LlamaGen_setup(api_key, load_failure)
        err == IF verr # "" THEN verr ELSE s.err
        trace == IF verr # "" THEN <<>> ELSE s.trace
    IN  /\ gen.phase = "Unconfigured"
        /\ gen_call' = [op |-> "init", err |-> err, trace |-> trace,
                        api_key |-> api_key, detect |-> ""]
        /\ gen' = IF err # "" THEN gen
                   ELSE [phase |-> "Configured", api_key |-> api_key,
                         model_name |-> name, device_name |-> device_name,
                         torch_dtype |->
                             IF device_name = "cuda" THEN "float16" ELSE "float32",
                         pipeline_device |-> IF device_name = "cuda" THEN 0 ELSE -1]
        /\ UNCHANGED <<lang_code, gen_logs, response, answer>>
        /\ UNCHANGED augVars

\* the prompt template GenerationBase configures: literal text around the
\* two placeholders
prompt_template ==
    [before |-> <<"Q", ":">>, between |-> <<" ", "C", ":">>, after |-> <<" ">> \o Marker]

\* prompt_template.format(query=query, context=context)
Format(template, query, context) ==
    template.before \o query \o template.between \o context \o template.after

\* what the callers give generate, and what its collaborators answer
Queries == {<<"q">>, <<"r">>}
Contexts == {<<>>, <<<<"x">>>>, <<<<"x">>, <<"y">>>>}
Detections == {"raise", "", "en", "es"}

\* the texts of at most n pieces
Pieces == {Marker, <<" ">>, <<"A">>, <<"B">>, <<"A", "n", "s", "w", "e", "r">>, <<":">>}
RECURSIVE TextsUpTo(_)
TextsUpTo(n) ==
    IF n = 0 THEN {<<>>}
    ELSE LET T == TextsUpTo(n - 1) IN T \cup {t \o p : t \in T, p \in Pieces}

\* a pipeline result: one sequence, a dict with or without 'generated_text'
ResponsesOf(texts) == {<< <<>> >>} \cup {<<[generated_text |-> t]>> : t \in texts}
PipelineResponses ==
    ResponsesOf({<<>>, <<"B">>, Marker \o <<" ", "A">>,
                 Marker \o <<"A", " ">> \o Marker \o <<" ", "B", "\n">>})

\* ExtractAnswer cutting at the first marker: split('Answer:', 1)
ExtractAnswerFirstMarker(resp) ==
    LET text == DictGet(resp[1], "generated_text", <<>>)
        i == Find(text, Marker, 1)
    IN  Strip(IF i = 0 THEN text ELSE SubSeq(text, i + Len(Marker), Len(text)))

\* lines 78-80: str(response[0].get('generated_text', '')), then
\* answer.split('Answer:')[-1].strip()
ExtractAnswer(resp) ==
    LET text == DictGet(resp[1], "generated_text", <<>>)
    IN  Strip(Last(Split(text, Marker)))

\* str(detect(query)) or 'en'
Language(detected) == OrStr(detected, "en")

\* the parameter set of lines 63-72
ModelParams(input_text) ==
    [text_inputs |-> input_text,
     max_new_tokens |-> default_output_max_length,
     do_sample |-> TRUE,
     temperature |-> default_temperature,
     top_k |-> 50,
     top_p |-> "0.95",
     num_return_sequences |-> 1,
     eos_token_id |-> "eos"]

\* LlamaGen.generate(query, context); detected is what detect(query) does,
\* pipeline_result what the generator does: << >> when it raises, else what
\* it returns
generate(query, context, detected, pipeline_result) ==
    LET input_text == Format(prompt_template, query, JoinSpace(context))
        model_params == ModelParams(input_text)
    IN  /\ gen.phase = "Configured"
        /\ UNCHANGED <<gen>>
        /\ UNCHANGED augVars
        /\ IF detected = "raise"
           THEN /\ gen_call' = [op |-> "generate", err |-> "LangDetectException",
                                trace |-> <<"detect">>, api_key |-> "",
                                detect |-> detected]
                /\ response' = <<>>
                /\ answer' = <<>>
                /\ UNCHANGED <<lang_code, gen_logs>>
           ELSE /\ lang_code' = <<Language(detected)>>
                /\ IF pipeline_result = <<>>
                   THEN /\ gen_call' = [op |-> "generate", err |-> "PipelineError",
                                        trace |-> <<"detect", "generator">>,
                                        api_key |-> "", detect |-> detected]
                        /\ response' = <<>>
                        /\ answer' = <<>>
                        /\ UNCHANGED gen_logs
                   ELSE /\ gen_call' = [op |-> "generate", err |-> "",
                                        trace |-> <<"detect", "generator">>,
                                        api_key |-> "", detect |-> detected]
                        /\ response' = pipeline_result
                        /\ gen_logs' = [k \in DOMAIN gen_logs \cup {"model_params"} |->
                                           IF k = "model_params" THEN model_params
                                           ELSE gen_logs[k]]
                        /\ answer' = ExtractAnswer(pipeline_result)

\* lines 78-80 alone, on a pipeline result already in hand
AnswerOnly ==
    /\ gen_call.op = "pending"
    /\ gen_call' = [gen_call EXCEPT !.op = "extract"]
    /\ answer' = ExtractAnswer(response)
    /\ UNCHANGED <<gen, lang_code, gen_logs, response>>
    /\ UNCHANGED augVars

\* ------------------------------------------------------- specifications
AugIdle ==
    /\ openai_api_key = ""
    /\ aug = NoAug
    /\ db_index = <<>>
    /\ aug_logs = <<>>
    /\ aug_call = NoSearch

GenInit ==
    /\ gen = NoGen
    /\ lang_code = <<>>
    /\ gen_logs = <<>>
    /\ gen_call = NoCall
    /\ response = <<>>
    /\ answer = <<>>
    /\ AugIdle

GenNext ==
    \/ \E k \in ApiKeys, m \in ModelNames, d \in DeviceNames, f \in LoadFailures :
          LlamaGen_init(k, m, d, f)
    \/ \E q \in Queries, c \in Contexts, d \in Detections,
          r \in {<<>>} \cup PipelineResponses :
          generate(q, c, d, r)

SpecGen == GenInit /\ [][GenNext]_vars

ExtractInit ==
    /\ gen = NoGen
    /\ lang_code = <<>>
    /\ gen_logs = <<>>
    /\ gen_call = [NoCall EXCEPT !.op = "pending"]
    /\ response \in ResponsesOf(TextsUpTo(MaxPieces))
    /\ answer = <<>>
    /\ AugIdle

ExtractNext == AnswerOnly

SpecExtract == ExtractInit /\ [][ExtractNext]_vars

GenIdle ==
    /\ gen = NoGen
    /\ lang_code = <<>>
    /\ gen_logs = <<>>
    /\ gen_call = NoCall
    /\ response = <<>>
    /\ answer = <<>>

Init ==
    /\ openai_api_key = ""
    /\ aug = NoAug
    /\ db_index = <<>>
    /\ aug_logs = <<>>
    /\ aug_call = NoSearch
    /\ GenIdle

Next ==
    \/ \E k \in AugApiKeys, m \in AugModelNames, t \in TopKs : OpenAIAug_init(k, m, t)
    \/ \E v \in {"none", "index"} : set_db(v)
    \/ \E q \in Texts, d \in DocLists, t \in TopKs, w \in Worlds :
          search(q, d, t, w.provider_failure, w.index_answer)

Spec == Init /\ [][Next]_vars

\* one search call, from every state the adapter is in after it was set up,
\* after its index was attached or taken away, and after at most one earlier
\* search that the index and the provider let succeed
ConfiguredAug(t) ==
    [phase |-> "Configured", api_key |-> "sk_key", model_name |-> default_model_name,
     top_k |-> t, model |-> <<[api_key |-> "sk_key"]>>, db |-> "missing"]

EarlierRuns(a) ==
    {[index |-> <<>>, logs |-> <<>>]}
    \cup {[index |-> r.index, logs |-> r.logs] :
            r \in {SearchRun([a EXCEPT !.db = "index"], <<>>, <<>>, q, d, t, "none", <<>>) :
                      q \in Texts, d \in DocLists, t \in TopKs}}

CallInit ==
    /\ openai_api_key = "sk_key"
    /\ \E t \in TopKs :
          \/ /\ aug = ConfiguredAug(t)
             /\ db_index = <<>>
             /\ aug_logs = <<>>
             /\ aug_call = [NoSearch EXCEPT !.op = "init",
                              !.trace = <<"openai.api_key", "openai.OpenAI">>,
                              !.api_key = "sk_key"]
          \/ \E v \in {"none", "index"}, e \in EarlierRuns(ConfiguredAug(t)) :
                /\ aug = [ConfiguredAug(t) EXCEPT !.db = v]
                /\ db_index = e.index
                /\ aug_logs = e.logs
                /\ aug_call = [NoSearch EXCEPT !.op = "set_db"]
    /\ GenIdle

CallNext ==
    \E q \in Texts, d \in DocLists, t \in TopKs \cup {5}, w \in Worlds :
        /\ aug_call.op # "search"
        /\ search(q, d, t, w.provider_failure, w.index_answer)

SpecCall == CallInit /\ [][CallNext]_vars

\* ----------------------------------------------------------------- claims
\* the errors the specification names, by the raise that stands for each
UninitializedIndexError == "DbNotInitialized"
RetrievalIndexError == "IndexError"
ConfigurationErrors == {"ApiKeyRequired", "NotMetaModel"}

\* the last operation was a search that got as far as asking the index
IndexAsked == aug_call.op = "search" /\ Len(aug_call.trace) = 4

\* C1: a search on an attached index that keeps its contract, with a
\* non-empty document list and 1 <= top_k <= len(documents), returns exactly
\* top_k strings, each an element of documents, in the order of the positions
\* the index returned.
C1_SearchReturnsTopK ==
    ( /\ IndexAsked
      /\ aug_call.conforming
      /\ 1 <= aug_call.top_k
      /\ aug_call.top_k <= Len(aug_call.documents) )
    => /\ aug_call.err = ""
       /\ Len(aug_call.result) = aug_call.top_k
       /\ Len(aug_call.indices) = aug_call.top_k
       /\ \A i \in 1..Len(aug_call.result) :
            /\ aug_call.indices[i] \in 0..(Len(aug_call.documents) - 1)
            /\ aug_call.result[i] = aug_call.documents[aug_call.indices[i] + 1]

\* C2: the top_k search passes to the index, and records in the log, is the
\* explicit argument when that is nonzero, else the instance's top_k when
\* that is nonzero, else the component default 2.
C2_TopKCascade ==
    LET expected == IF aug_call.top_k # 0 THEN aug_call.top_k
                    ELSE IF aug.top_k # 0 THEN aug.top_k
                    ELSE 2
    IN  IndexAsked
        => /\ aug_call.db_top_k = expected
           /\ aug_call.err = "" => aug_logs["search_params"].top_k = expected

C2_Witness ==
    /\ IndexAsked
    /\ aug_call.top_k = 0
    /\ aug.top_k = 0
    /\ aug_call.db_top_k = 2
    /\ aug_call.err = ""
    /\ aug_logs["search_params"].top_k = 2

\* C3: a search on an adapter whose db attribute is missing or false fails
\* with UninitializedIndexError, calls neither the embedding provider nor the
\* index, and leaves the log and the index as they were.
C3_NoIndexNoCalls ==
    [][ (aug_call'.op = "search" /\ aug.db \in {"missing", "none"})
        => /\ aug_call'.err = UninitializedIndexError
           /\ aug_call'.trace = <<>>
           /\ aug_logs' = aug_logs
           /\ db_index' = db_index ]_vars

C3_Witness ==
    /\ aug_call.op = "search"
    /\ aug.db = "none"
    /\ aug_call.err = UninitializedIndexError
    /\ aug_call.trace = <<>>
    /\ aug_logs # <<>>

\* C4: whenever the index returns a position that is no valid offset into
\* documents (below 0, or len(documents) and above), search fails with
\* RetrievalIndexError and returns nothing.
C4_InvalidPositionRaises ==
    ( /\ IndexAsked
      /\ \E i \in 1..Len(aug_call.indices) :
            aug_call.indices[i] \notin 0..(Len(aug_call.documents) - 1) )
    => /\ aug_call.err = RetrievalIndexError
       /\ aug_call.result = <<>>

\* C5: after every generate call the tokenizer's language hint is set; when
\* the detector raised or returned an empty result the hint is "en" and the
\* call went on to the generation pipeline.
C5_DetectionFailureDefaultsToEn ==
    gen_call.op = "generate"
    => /\ lang_code # <<>>
       /\ gen_call.detect \in {"raise", ""}
          => /\ lang_code = <<"en">>
             /\ gen_call.err # "LangDetectException"
             /\ gen_call.trace = <<"detect", "generator">>

\* C6: for both adapters, setup with an empty API key fails with a
\* ConfigurationError before any provider step (credential assignment,
\* client construction, tokenizer or model loading), and no adapter is
\* Configured with an empty key.
C6_EmptyKeyFailsFirst ==
    /\ (aug_call.op = "init" /\ aug_call.api_key = "")
       => aug_call.err \in ConfigurationErrors /\ aug_call.trace = <<>>
    /\ (gen_call.op = "init" /\ gen_call.api_key = "")
       => gen_call.err \in ConfigurationErrors /\ gen_call.trace = <<>>
    /\ aug.phase = "Configured" => aug.api_key # ""
    /\ gen.phase = "Configured" => gen.api_key # ""

\* a is s without its leading and trailing whitespace
IsTrimOf(a, s) ==
    \E i \in 1..(Len(s) + 1), j \in 0..Len(s) :
        /\ a = SubSeq(s, i, j)
        /\ \A p \in 1..Len(s) : (p < i \/ p > j) => s[p] \in Whitespace
        /\ a # <<>> => (a[1] \notin Whitespace /\ a[Len(a)] \notin Whitespace)

\* C7: the answer is the generated text after the last occurrence of the
\* marker "Answer:", trimmed; the whole text trimmed when there is no marker;
\* the empty string when the generated_text field is absent.
C7_AnswerAfterLastMarker ==
    gen_call.op = "extract"
    => LET absent == "generated_text" \notin DOMAIN response[1]
           text == IF absent THEN <<>> ELSE response[1].generated_text
           at == {i \in 1..(Len(text) - Len(Marker) + 1) :
                     SubSeq(text, i, i + Len(Marker) - 1) = Marker}
           last == CHOOSE i \in at : \A j \in at : j <= i
           rest == IF at = {} THEN text
                   ELSE SubSeq(text, last + Len(Marker), Len(text))
       IN  /\ IsTrimOf(answer, rest)
           /\ absent => answer = <<>>

C7_Witness ==
    /\ gen_call.op = "extract"
    /\ response = <<[generated_text |-> Marker \o <<"A">> \o Marker \o <<"B">>]>>
    /\ answer = <<"B">>

\* C8: after a search or generate call the log holds the artifacts of that
\* call and nothing else: those the call wrote when it succeeded, nothing of
\* an earlier call when it failed.
C8_LogHoldsLastCallOnly ==
    /\ aug_call.op = "search"
       => IF aug_call.err = ""
          THEN /\ DOMAIN aug_logs = {"indices", "scores", "search_params"}
               /\ aug_logs["indices"] = aug_call.indices
               /\ aug_logs["search_params"] =
                      [query_encoded |-> <<Embedding(aug_call.query)>>,
                       top_k |-> aug_call.db_top_k]
          ELSE aug_logs = <<>>
    /\ gen_call.op = "generate"
       => IF gen_call.err = ""
          THEN DOMAIN gen_logs = {"model_params"}
          ELSE gen_logs = <<>>

\* C9: a search returns what the same search returns on the adapter before
\* any earlier search: nothing an earlier call left in the index takes part.
C9_SearchIsSingleShot ==
    (IndexAsked /\ aug_call.conforming)
    => LET fresh == SearchRun(aug, <<>>, <<>>, aug_call.query, aug_call.documents,
                              aug_call.top_k, "none", <<>>)
       IN  /\ aug_call.err = fresh.err
           /\ aug_call.result = fresh.result

\* C10: a search or generate call that fails leaves everything but the log
\* and the language hint as it was: the adapter's configuration, the
\* process-wide key, the vectors the index stores.
C10_FailedCallLeavesState ==
    [][ /\ (aug_call'.op = "search" /\ aug_call'.err # "")
           => (aug' = aug /\ db_index' = db_index /\ openai_api_key' = openai_api_key)
        /\ (gen_call'.op = "generate" /\ gen_call'.err # "")
           => gen' = gen ]_vars

====
